---- MODULE Spec2Model ----
(***************************************************************************)
(* Model of the retrieval engine of backend/app/services:                  *)
(*   ExerciseRAG        (exercise_rag.py)   index, documents, ledger, disk *)
(*   RAGFolderLoader    (rag_loader.py)     folder scan and ledger diff    *)
(*   DocumentProcessor  (document_processor.py)  load + split              *)
(*                                                                         *)
(* A Python str is modelled as a sequence of tokens; the tokens NL and SP  *)
(* are the newline and the blank, every other token is an ordinary         *)
(* (non-whitespace) piece of text.  A file name is a string too: its last  *)
(* token is its suffix.                                                    *)
(***************************************************************************)
EXTENDS Integers, Sequences, FiniteSets, TLC

VARIABLES
    index,            \* self.index: [none |-> BOOLEAN, vecs |-> Seq(vector)]
    documents,        \* self.documents: Seq(str)
    processed_files,  \* self.processed_files: Seq(str), the ledger
    embedding_model,  \* self.embedding_model: "None" or "loaded"
    model_built,      \* how often this engine constructed SentenceTransformer
    disk,             \* the three files of persist_directory
    folder,           \* the entries of the documents folder
    ret,              \* the last completed call and what it returned
    only_adds,        \* every call on this persist directory so far was a
                      \* successful add_document or a read
    born_aligned,     \* the constructor of this engine loaded as many
                      \* documents as vectors
    faults,           \* how many calls met a fault outside their file
    \* rag_manager.py, with the threads that call into it
    _diet_rag,        \* the module global: None or an engine instance
    _exercise_rag,    \* the module global: None or an engine instance
    callers,          \* per thread: where it is in get_diet_rag or
                      \* get_exercise_rag, and the instance it constructed
    made,             \* the engine instances constructed so far
    handed,           \* the (getter, instance) pairs returned so far
    \* the two domains side by side
    rag,              \* per domain: what its engine holds in memory
    fs,               \* per persist directory: its three files
    last,             \* the domain and the method of the last call
    \* add_document statement by statement, called from two threads
    writers,          \* per thread: the statement it is at, its file, its
                      \* loop position and what its call returned
    track             \* raced: an index that held vectors has been
                      \* replaced since the engine was constructed;
                      \* disk_aligned: documents.txt had as many lines as
                      \* the index file had vectors when the latest call
                      \* began

engine_vars == <<index, documents, processed_files, embedding_model,
                 model_built, disk, folder, ret, only_adds, born_aligned,
                 faults>>

registry_vars == <<_diet_rag, _exercise_rag, callers, made, handed>>

domain_vars == <<rag, fs, last>>

writer_vars == <<writers, track>>

vars == <<engine_vars, registry_vars, domain_vars, writer_vars>>

\* what the steps of one part of the model leave alone
not_engine == <<registry_vars, domain_vars, writer_vars>>
not_registry == <<engine_vars, domain_vars, writer_vars>>
not_domains == <<engine_vars, registry_vars, writer_vars>>
not_writers == <<folder, ret, only_adds, born_aligned, faults,
                 registry_vars, domain_vars>>

-----------------------------------------------------------------------------
(* Bounds of the model *)

MaxDocs == 2          \* most vectors the index is allowed to grow to;
                      \* search is called with k up to this too
MaxFaults == 1        \* most calls that meet a fault outside their file

-----------------------------------------------------------------------------
(* Python strings *)

NL == "\n"
SP == " "

Whitespace == {NL, SP}

\* str.strip(): drop leading and trailing whitespace
RECURSIVE LStrip(_)
LStrip(s) ==
    IF s = <<>> THEN <<>>
    ELSE IF Head(s) \in Whitespace THEN LStrip(Tail(s)) ELSE s

RECURSIVE RStrip(_)
RStrip(s) ==
    IF s = <<>> THEN <<>>
    ELSE IF s[Len(s)] \in Whitespace THEN RStrip(SubSeq(s, 1, Len(s) - 1)) ELSE s

strip(s) == RStrip(LStrip(s))

\* '\n'.join(lines)
RECURSIVE join(_)
join(lines) ==
    IF lines = <<>> THEN <<>>
    ELSE IF Len(lines) = 1 THEN lines[1]
    ELSE lines[1] \o <<NL>> \o join(Tail(lines))

\* position of the first newline of s, 0 when there is none
FirstNL(s) ==
    IF \E i \in 1..Len(s) : s[i] = NL
    THEN CHOOSE i \in 1..Len(s) : s[i] = NL /\ \A j \in 1..(i - 1) : s[j] # NL
    ELSE 0

\* f.readlines(): the lines of a text file, each with its terminator
RECURSIVE readlines(_)
readlines(s) ==
    IF s = <<>> THEN <<>>
    ELSE LET i == FirstNL(s) IN
         IF i = 0 THEN <<s>>
         ELSE <<SubSeq(s, 1, i)>> \o readlines(SubSeq(s, i + 1, Len(s)))

\* [line.strip() for line in f.readlines()]
StrippedLines(s) ==
    LET ls == readlines(s) IN [i \in 1..Len(ls) |-> strip(ls[i])]

-----------------------------------------------------------------------------
(* Files *)

Absent == [exists |-> FALSE, data |-> <<>>]
File(d) == [exists |-> TRUE, data |-> d]

EmptyDir == [index |-> Absent, docs |-> Absent, processed |-> Absent]

\* Path(p).name and Path(p).suffix of an entry
Name(f) == f.name
Suffix(f) == IF Len(f.name) >= 2 THEN f.name[Len(f.name)] ELSE ""

\* str.lower() on the suffixes that occur
lower(x) ==
    CASE x = ".TXT" -> ".txt"
      [] x = ".MD"  -> ".md"
      [] x = ".PDF" -> ".pdf"
      [] OTHER      -> x

\* The chunk texts that occur
Ta == <<"a">>
Tb == <<"b">>
Tab == <<"a", NL, "b">>

\* Everything a path handed to the engine can name.  readable: the loader
\* can parse it; chunks: what the splitter makes of it; bad: the position
\* of the chunk whose encoding raises (0: none does).
Entries ==
    { [name |-> <<"a", ".txt">>, is_file |-> TRUE,  readable |-> TRUE,
       chunks |-> <<Ta>>, bad |-> 0],
      [name |-> <<"b", ".MD">>,  is_file |-> TRUE,  readable |-> TRUE,
       chunks |-> <<Tab, Tb>>, bad |-> 0],
      [name |-> <<"d", ".txt">>, is_file |-> TRUE,  readable |-> TRUE,
       chunks |-> <<Ta, Tb>>, bad |-> 2],
      [name |-> <<"c", ".pdf">>, is_file |-> TRUE,  readable |-> FALSE,
       chunks |-> <<>>, bad |-> 0],
      [name |-> <<"z", ".txt">>, is_file |-> TRUE,  readable |-> TRUE,
       chunks |-> <<>>, bad |-> 0],
      [name |-> <<"n", ".exe">>, is_file |-> TRUE,  readable |-> TRUE,
       chunks |-> <<Ta>>, bad |-> 0],
      [name |-> <<"s", ".txt">>, is_file |-> FALSE, readable |-> FALSE,
       chunks |-> <<>>, bad |-> 0] }

Queries == {Ta, Tb}

\* What can go wrong outside the file itself during one call
Faults == {"none", "model_init", "ledger_write", "index_write", "docs_write"}

-----------------------------------------------------------------------------
(* DocumentProcessor *)

LoaderExtensions == {".pdf", ".txt", ".md", ".docx"}

\* load_document raises unless the extension has a loader and the loader
\* can read the file
load_document_ok(f) ==
    /\ lower(Suffix(f)) \in LoaderExtensions
    /\ f.is_file
    /\ f.readable

\* process_document: [ok |-> it returned, chunks |-> what it returned]
process_document(f) ==
    IF load_document_ok(f)
    THEN [ok |-> TRUE, chunks |-> f.chunks]
    ELSE [ok |-> FALSE, chunks |-> <<>>]

-----------------------------------------------------------------------------
(* Embedding model and FAISS index *)

TokenCode(c) ==
    CASE c = "a" -> 1
      [] c = "b" -> 3
      [] c = NL  -> 4
      [] OTHER   -> 0

\* SentenceTransformer.encode: a deterministic map from text to a vector
\* (one coordinate stands for the 384)
RECURSIVE encode(_)
encode(t) == IF t = <<>> THEN 0 ELSE TokenCode(Head(t)) + encode(Tail(t))

\* a stored vector; "of" remembers the text it was computed from
Vector(t) == [v |-> encode(t), of |-> t]

NoIndex == [none |-> TRUE, vecs |-> <<>>]
IndexFlatL2 == [none |-> FALSE, vecs |-> <<>>]

ntotal(ix) == Len(ix.vecs)

\* squared Euclidean distance
L2(x, y) == (x - y) * (x - y)

\* The orderings of m of the positions in `rest`, nearest first; equal
\* distances may come in either order.
RECURSIVE Nearest(_, _, _, _)
Nearest(vecs, q, rest, m) ==
    IF m = 0 \/ rest = {} THEN {<<>>}
    ELSE LET best == {i \in rest :
                        \A j \in rest : L2(vecs[i].v, q) <= L2(vecs[j].v, q)}
         IN UNION {{<<i>> \o r : r \in Nearest(vecs, q, rest \ {i}, m - 1)} :
                     i \in best}

\* index.search(q, k): every (distances[0], indices[0]) it may return, as a
\* sequence of k pairs; positions are 0-based, a missing one is -1 at a
\* distance beyond every real one
IndexSearch(ix, q, k) ==
    { [j \in 1..k |->
          IF j <= Len(o)
          THEN [idx |-> o[j] - 1, distance |-> L2(ix.vecs[o[j]].v, q)]
          ELSE [idx |-> -1, distance |-> 1000000]] :
      o \in Nearest(ix.vecs, q, 1..Len(ix.vecs), k) }

-----------------------------------------------------------------------------
(* ExerciseRAG.  An engine is the record                                   *)
(*   [index, documents, processed_files, embedding_model, disk]            *)
(* and the count of the models _get_embedding_model constructed;           *)
(* each method is an operator from the engine before the call to the       *)
(* engine after it and what the call returned.                             *)

\* _load_processed_files
load_processed_files(d) ==
    IF d.processed.exists THEN StrippedLines(d.processed.data) ELSE <<>>

\* _load_index: [index, documents] as the constructor leaves them
load_index(d) ==
    IF d.index.exists
    THEN [index |-> [none |-> FALSE, vecs |-> d.index.data],
          documents |-> IF d.docs.exists
                        THEN StrippedLines(d.docs.data) ELSE <<>>]
    ELSE [index |-> NoIndex, documents |-> <<>>]

\* __init__ on a persist directory holding d
init(d) ==
    [index            |-> load_index(d).index,
     documents        |-> load_index(d).documents,
     processed_files  |-> load_processed_files(d),
     embedding_model  |-> "None",
     model_built      |-> 0,
     disk             |-> d]

\* _save_processed_files: [e |-> engine after, raised |-> it raised].  A
\* write that fails does so in open(): the file stays as it was.
save_processed_files(e, fault) ==
    IF fault = "ledger_write"
    THEN [e |-> e, raised |-> TRUE]
    ELSE [e |-> [e EXCEPT !.disk.processed = File(join(e.processed_files))],
          raised |-> FALSE]

\* _save_index: the index file first, the documents file second
save_index(e, fault) ==
    IF e.index.none THEN [e |-> e, raised |-> FALSE]
    ELSE IF fault = "index_write" THEN [e |-> e, raised |-> TRUE]
    ELSE LET e1 == [e EXCEPT !.disk.index = File(e.index.vecs)] IN
         IF fault = "docs_write" THEN [e |-> e1, raised |-> TRUE]
         ELSE [e |-> [e1 EXCEPT !.disk.docs = File(join(e.documents))],
               raised |-> FALSE]

\* _get_embedding_model constructing the model at every call
get_embedding_model_uncached(e, fault) ==
    IF fault = "model_init" /\ e.embedding_model = "None"
    THEN [e |-> e, raised |-> TRUE]
    ELSE [e |-> [e EXCEPT !.embedding_model = "loaded",
                          !.model_built = @ + 1],
          raised |-> FALSE]

\* _get_embedding_model: SentenceTransformer(...) is evaluated only while
\* the attribute is None, and when it raises the attribute stays None
get_embedding_model(e, fault) ==
    IF e.embedding_model = "None"
    THEN IF fault = "model_init"
         THEN [e |-> e, raised |-> TRUE]
         ELSE [e |-> [e EXCEPT !.embedding_model = "loaded",
                               !.model_built = @ + 1],
               raised |-> FALSE]
    ELSE [e |-> e, raised |-> FALSE]

\* add_chunks with the text stored before its embedding is computed
RECURSIVE add_chunks_text_first(_, _, _, _, _)
add_chunks_text_first(e, chunks, i, bad, fault) ==
    IF i > Len(chunks) THEN [e |-> e, raised |-> FALSE, at |-> 0]
    ELSE LET e1 == [e EXCEPT !.documents = Append(@, chunks[i])]
             m == get_embedding_model(e1, fault)
         IN
         IF m.raised THEN [e |-> m.e, raised |-> TRUE, at |-> i]
         ELSE IF i = bad THEN [e |-> m.e, raised |-> TRUE, at |-> i]
         ELSE LET e2 == [m.e EXCEPT
                            !.index.vecs = Append(@, Vector(chunks[i]))]
              IN add_chunks_text_first(e2, chunks, i + 1, bad, fault)

\* add_chunks starting every document on an emptied index and store
RECURSIVE add_chunks_fresh_store(_, _, _, _, _)
add_chunks_fresh_store(e, chunks, i, bad, fault) ==
    LET e0 == IF i = 1
              THEN [e EXCEPT !.index.vecs = <<>>, !.documents = <<>>]
              ELSE e
    IN
    IF i > Len(chunks) THEN [e |-> e0, raised |-> FALSE, at |-> 0]
    ELSE LET m == get_embedding_model(e0, fault) IN
         IF m.raised THEN [e |-> m.e, raised |-> TRUE, at |-> i]
         ELSE IF i = bad THEN [e |-> m.e, raised |-> TRUE, at |-> i]
         ELSE LET e1 == [m.e EXCEPT
                            !.index.vecs = Append(@, Vector(chunks[i]))]
                  e2 == [e1 EXCEPT !.documents = Append(@, chunks[i])]
              IN add_chunks_fresh_store(e2, chunks, i + 1, bad, fault)

\* the loop of add_document over chunks[i..]: encode, index.add,
\* documents.append; stops at the first chunk that raises, `at` being its
\* position (0: none raised)
RECURSIVE add_chunks(_, _, _, _, _)
add_chunks(e, chunks, i, bad, fault) ==
    IF i > Len(chunks) THEN [e |-> e, raised |-> FALSE, at |-> 0]
    ELSE LET m == get_embedding_model(e, fault) IN
         IF m.raised THEN [e |-> m.e, raised |-> TRUE, at |-> i]
         ELSE IF i = bad THEN [e |-> m.e, raised |-> TRUE, at |-> i]
         ELSE LET e1 == [m.e EXCEPT
                            !.index.vecs = Append(@, Vector(chunks[i]))]
                  e2 == [e1 EXCEPT !.documents = Append(@, chunks[i])]
              IN add_chunks(e2, chunks, i + 1, bad, fault)

\* the ledger step without the membership test
track_processed_file_always(e, f, fault) ==
    save_processed_files(
        [e EXCEPT !.processed_files = Append(@, Name(f))], fault)

\* the ledger step of add_document
track_processed_file(e, f, fault) ==
    IF \E i \in 1..Len(e.processed_files) : e.processed_files[i] = Name(f)
    THEN [e |-> e, raised |-> FALSE]
    ELSE save_processed_files(
             [e EXCEPT !.processed_files = Append(@, Name(f))], fault)

\* add_document entering the name in the ledger before the chunks are
\* embedded
add_document_ledger_first(e, f, fault) ==
    LET p == process_document(f) IN
    IF ~p.ok
    THEN [e |-> e, ok |-> FALSE, raised |-> FALSE, faulted |-> FALSE,
          stage |-> "load", at |-> 0]
    ELSE
    LET e0 == IF e.index.none THEN [e EXCEPT !.index = IndexFlatL2] ELSE e
        t == track_processed_file(e0, f, fault)
    IN
    IF t.raised
    THEN [e |-> t.e, ok |-> FALSE, raised |-> FALSE, faulted |-> TRUE,
          stage |-> "ledger", at |-> 0]
    ELSE
    LET c == add_chunks(t.e, p.chunks, 1, f.bad, fault) IN
    IF c.raised
    THEN [e |-> c.e, ok |-> FALSE, raised |-> FALSE,
          faulted |-> c.e.embedding_model = "None",
          stage |-> IF c.e.embedding_model = "None" THEN "model" ELSE "encode",
          at |-> c.at]
    ELSE
    LET s == save_index(c.e, fault) IN
    IF s.raised
    THEN [e |-> s.e, ok |-> FALSE, raised |-> FALSE, faulted |-> TRUE,
          stage |-> "save", at |-> 0]
    ELSE [e |-> s.e, ok |-> TRUE, raised |-> FALSE, faulted |-> FALSE,
          stage |-> "return", at |-> 0]

\* add_document creating the index before the file is loaded
add_document_index_first(e, f, fault) ==
    LET e0 == IF e.index.none THEN [e EXCEPT !.index = IndexFlatL2] ELSE e
        p == process_document(f)
    IN
    IF ~p.ok
    THEN [e |-> e0, ok |-> FALSE, raised |-> FALSE, faulted |-> FALSE,
          stage |-> "load", at |-> 0]
    ELSE
    LET c == add_chunks(e0, p.chunks, 1, f.bad, fault) IN
    IF c.raised
    THEN [e |-> c.e, ok |-> FALSE, raised |-> FALSE,
          faulted |-> c.e.embedding_model = "None",
          stage |-> IF c.e.embedding_model = "None" THEN "model" ELSE "encode",
          at |-> c.at]
    ELSE
    LET t == track_processed_file(c.e, f, fault) IN
    IF t.raised
    THEN [e |-> t.e, ok |-> FALSE, raised |-> FALSE, faulted |-> TRUE,
          stage |-> "ledger", at |-> 0]
    ELSE
    LET s == save_index(t.e, fault) IN
    IF s.raised
    THEN [e |-> s.e, ok |-> FALSE, raised |-> FALSE, faulted |-> TRUE,
          stage |-> "save", at |-> 0]
    ELSE [e |-> s.e, ok |-> TRUE, raised |-> FALSE, faulted |-> FALSE,
          stage |-> "return", at |-> 0]

\* add_document with _save_index called after the try statement, where
\* what it raises leaves the call
add_document_save_outside_try(e, f, fault) ==
    LET p == process_document(f) IN
    IF ~p.ok
    THEN [e |-> e, ok |-> FALSE, raised |-> FALSE, faulted |-> FALSE,
          stage |-> "load", at |-> 0]
    ELSE
    LET e0 == IF e.index.none THEN [e EXCEPT !.index = IndexFlatL2] ELSE e
        c  == add_chunks(e0, p.chunks, 1, f.bad, fault)
    IN
    IF c.raised
    THEN [e |-> c.e, ok |-> FALSE, raised |-> FALSE,
          faulted |-> c.e.embedding_model = "None",
          stage |-> IF c.e.embedding_model = "None" THEN "model" ELSE "encode",
          at |-> c.at]
    ELSE
    LET t == track_processed_file(c.e, f, fault) IN
    IF t.raised
    THEN [e |-> t.e, ok |-> FALSE, raised |-> FALSE, faulted |-> TRUE,
          stage |-> "ledger", at |-> 0]
    ELSE
    LET s == save_index(t.e, fault) IN
    IF s.raised
    THEN [e |-> s.e, ok |-> FALSE, raised |-> TRUE, faulted |-> TRUE,
          stage |-> "save", at |-> 0]
    ELSE [e |-> s.e, ok |-> TRUE, raised |-> FALSE, faulted |-> FALSE,
          stage |-> "return", at |-> 0]

\* add_document: [e |-> engine after, ok |-> the value returned,
\*                raised |-> an exception left the call (the try spans the
\*                           whole body, so none does),
\*                faulted |-> something outside the file went wrong,
\*                stage |-> the statement that raised ("return": none did),
\*                at |-> the position of the chunk that raised, 0 if none]
add_document(e, f, fault) ==
    LET p == process_document(f) IN
    IF ~p.ok
    THEN [e |-> e, ok |-> FALSE, raised |-> FALSE, faulted |-> FALSE,
          stage |-> "load", at |-> 0]
    ELSE
    LET e0 == IF e.index.none THEN [e EXCEPT !.index = IndexFlatL2] ELSE e
        c  == add_chunks(e0, p.chunks, 1, f.bad, fault)
    IN
    IF c.raised
    THEN [e |-> c.e, ok |-> FALSE, raised |-> FALSE,
          faulted |-> c.e.embedding_model = "None",
          stage |-> IF c.e.embedding_model = "None" THEN "model" ELSE "encode",
          at |-> c.at]
    ELSE
    LET t == track_processed_file(c.e, f, fault) IN
    IF t.raised
    THEN [e |-> t.e, ok |-> FALSE, raised |-> FALSE, faulted |-> TRUE,
          stage |-> "ledger", at |-> 0]
    ELSE
    LET s == save_index(t.e, fault) IN
    IF s.raised
    THEN [e |-> s.e, ok |-> FALSE, raised |-> FALSE, faulted |-> TRUE,
          stage |-> "save", at |-> 0]
    ELSE [e |-> s.e, ok |-> TRUE, raised |-> FALSE, faulted |-> FALSE,
          stage |-> "return", at |-> 0]

\* get_document_count
get_document_count(e) == IF e.documents # <<>> THEN Len(e.documents) ELSE 0

\* clear
clear(e) ==
    [e EXCEPT !.index = NoIndex,
              !.documents = <<>>,
              !.disk.index = Absent,
              !.disk.docs = Absent]

\* search_results with the hits taken farthest first
search_results_reversed(e, raw) ==
    LET keep(h) == h.idx # -1 /\ h.idx < Len(e.documents)
        hits == SelectSeq(raw, keep)
        n == Len(hits)
    IN [j \in 1..n |->
           [content         |-> e.documents[hits[n + 1 - j].idx + 1],
            distance        |-> hits[n + 1 - j].distance,
            relevance_score |-> <<1, 1 + hits[n + 1 - j].distance>>,
            idx             |-> hits[n + 1 - j].idx]]

\* the loop of search over zip(distances[0], indices[0]); "idx" is kept
\* beside the three keys of the result to tell which vector was hit
search_results(e, raw) ==
    LET keep(h) == h.idx # -1 /\ h.idx < Len(e.documents)
        hits == SelectSeq(raw, keep)
    IN [j \in 1..Len(hits) |->
           [content         |-> e.documents[hits[j].idx + 1],
            distance        |-> hits[j].distance,
            relevance_score |-> <<1, 1 + hits[j].distance>>,
            idx             |-> hits[j].idx]]

\* search testing only index.ntotal before the try: no index, no attribute
search_unguarded(e, query, k, fault, raw) ==
    IF e.index.none
    THEN [e |-> e, results |-> <<>>, raised |-> TRUE, failed |-> FALSE]
    ELSE IF ntotal(e.index) = 0
    THEN [e |-> e, results |-> <<>>, raised |-> FALSE, failed |-> FALSE]
    ELSE LET m == get_embedding_model(e, fault) IN
         IF m.raised
         THEN [e |-> m.e, results |-> <<>>, raised |-> FALSE, failed |-> TRUE]
         ELSE [e |-> m.e, results |-> search_results(m.e, raw),
               raised |-> FALSE, failed |-> FALSE]

\* search saving index and documents once the query is answered
search_saving(e, query, k, fault, raw) ==
    IF e.index.none \/ ntotal(e.index) = 0
    THEN [e |-> e, results |-> <<>>, raised |-> FALSE, failed |-> FALSE]
    ELSE LET m == get_embedding_model(e, fault) IN
         IF m.raised
         THEN [e |-> m.e, results |-> <<>>, raised |-> FALSE, failed |-> TRUE]
         ELSE [e |-> save_index(m.e, "none").e,
               results |-> search_results(m.e, raw),
               raised |-> FALSE, failed |-> FALSE]

\* search; `raw` is what index.search returns when it is reached, `fault`
\* what goes wrong while the query is embedded.
\* [e |-> engine after, results |-> the list returned, raised, failed |->
\*  the except branch was taken]
search(e, query, k, fault, raw) ==
    IF e.index.none \/ ntotal(e.index) = 0
    THEN [e |-> e, results |-> <<>>, raised |-> FALSE, failed |-> FALSE]
    ELSE LET m == get_embedding_model(e, fault) IN
         IF m.raised
         THEN [e |-> m.e, results |-> <<>>, raised |-> FALSE, failed |-> TRUE]
         ELSE [e |-> m.e, results |-> search_results(m.e, raw),
               raised |-> FALSE, failed |-> FALSE]

-----------------------------------------------------------------------------
(* RAGFolderLoader *)

supported_extensions == {".pdf", ".docx", ".txt", ".md"}

\* get_files
get_files(dir) ==
    {f \in dir : f.is_file /\ lower(Suffix(f)) \in supported_extensions}

\* list_files: the name and the extension of every supported file (size
\* and path are left out, and so is the order of the list)
list_files(dir) ==
    [file_count |-> Cardinality(get_files(dir)),
     files |-> {[name |-> Name(f), extension |-> Suffix(f)] : f \in get_files(dir)}]

\* get_unprocessed_files without the ledger filter
get_unprocessed_files_all(dir, processed) == get_files(dir)

\* get_unprocessed_files
get_unprocessed_files(dir, processed) ==
    LET processed_set == {processed[i] : i \in 1..Len(processed)} IN
    {f \in get_files(dir) : Name(f) \notin processed_set}

\* the orders in which iterdir may list a set of entries
RECURSIVE Orders(_)
Orders(S) ==
    IF S = {} THEN {<<>>}
    ELSE UNION {{<<x>> \o o : o \in Orders(S \ {x})} : x \in S}

-----------------------------------------------------------------------------
(* ExerciseRAG.process_folder *)

NewReport(files) ==
    [total_files |-> Len(files), processed |-> 0, failed |-> 0, files |-> <<>>]

\* process_files without the try around add_document's result: the first
\* file that fails ends the batch
RECURSIVE process_files_abort(_, _, _, _, _, _)
process_files_abort(e, files, i, results, calls, fault) ==
    IF i > Len(files)
    THEN [e |-> e, results |-> results, calls |-> calls, raised |-> FALSE]
    ELSE LET r == add_document(e, files[i], fault)
             c == Append(calls, [name |-> Name(files[i]),
                                 faulted |-> r.faulted])
         IN IF ~r.ok
            THEN [e |-> r.e, results |-> results, calls |-> c,
                  raised |-> TRUE]
            ELSE process_files_abort(
                     r.e, files, i + 1,
                     [results EXCEPT
                        !.processed = @ + 1,
                        !.files = Append(@, [name |-> Name(files[i]),
                                             status |-> "success"])],
                     c, fault)

\* the loop of process_folder over files[i..], `fault` being what is wrong
\* outside the files while the call runs.  calls: the names handed to
\* add_document, each with whether that call met the fault.
RECURSIVE process_files(_, _, _, _, _, _)
process_files(e, files, i, results, calls, fault) ==
    IF i > Len(files)
    THEN [e |-> e, results |-> results, calls |-> calls, raised |-> FALSE]
    ELSE LET r == add_document(e, files[i], fault)
             res == IF r.raised
                    THEN [results EXCEPT
                            !.failed = @ + 1,
                            !.files = Append(@, [name |-> Name(files[i]),
                                                 status |-> "error"])]
                    ELSE IF r.ok
                    THEN [results EXCEPT
                            !.processed = @ + 1,
                            !.files = Append(@, [name |-> Name(files[i]),
                                                 status |-> "success"])]
                    ELSE [results EXCEPT
                            !.failed = @ + 1,
                            !.files = Append(@, [name |-> Name(files[i]),
                                                 status |-> "failed"])]
         IN process_files(r.e, files, i + 1, res,
                          Append(calls, [name |-> Name(files[i]),
                                         faulted |-> r.faulted]),
                          fault)

\* process_folder, get_unprocessed_files having listed `files` in this order
process_folder(e, files, fault) ==
    process_files(e, files, 1, NewReport(files), <<>>, fault)

-----------------------------------------------------------------------------
(* rag_manager: the two module globals and their getters, called from the  *)
(* threads of one process.  A getter is three statements (the test, the    *)
(* assignment, the return); the assignment is the call of the constructor, *)
(* which reads files, followed by the store of its result, and another     *)
(* thread can run between any two of these.                                *)

Threads == {"t1", "t2"}

Getters == {"get_diet_rag", "get_exercise_rag"}

ClassOf(fn) == IF fn = "get_diet_rag" THEN "DietRAG" ELSE "ExerciseRAG"

\* the global a getter reads and writes
Global(fn) == IF fn = "get_diet_rag" THEN _diet_rag ELSE _exercise_rag

\* Python's None, as an instance of no engine class
None == [class |-> "NoneType", id |-> 0]

Idle == [pc |-> "idle", fn |-> "", mine |-> None]

RegistryStart ==
    /\ _diet_rag = None
    /\ _exercise_rag = None
    /\ callers = [t \in Threads |-> Idle]
    /\ made = {}
    /\ handed = {}

\* thread t calls getter fn
GetCall(t, fn) ==
    /\ callers[t].pc = "idle"
    /\ callers' = [callers EXCEPT ![t] = [pc |-> "test", fn |-> fn,
                                          mine |-> None]]
    /\ UNCHANGED <<_diet_rag, _exercise_rag, made, handed>>
    /\ UNCHANGED not_registry

\* if _x is None:
GetTest(t) ==
    /\ callers[t].pc = "test"
    /\ callers' = [callers EXCEPT ![t].pc =
                      IF Global(callers[t].fn) = None
                      THEN "construct" ELSE "return"]
    /\ UNCHANGED <<_diet_rag, _exercise_rag, made, handed>>
    /\ UNCHANGED not_registry

\* DietRAG() or ExerciseRAG(): a new instance, the n-th of its class
GetConstruct(t) ==
    /\ callers[t].pc = "construct"
    /\ LET c == ClassOf(callers[t].fn)
           n == Cardinality({i \in made : i.class = c})
           new == [class |-> c, id |-> n + 1]
       IN /\ made' = made \cup {new}
          /\ callers' = [callers EXCEPT ![t].pc = "store", ![t].mine = new]
    /\ UNCHANGED <<_diet_rag, _exercise_rag, handed>>
    /\ UNCHANGED not_registry

\* _x = <the instance constructed>
GetStore(t) ==
    /\ callers[t].pc = "store"
    /\ IF callers[t].fn = "get_diet_rag"
       THEN _diet_rag' = callers[t].mine /\ UNCHANGED _exercise_rag
       ELSE _exercise_rag' = callers[t].mine /\ UNCHANGED _diet_rag
    /\ callers' = [callers EXCEPT ![t].pc = "return"]
    /\ UNCHANGED <<made, handed>>
    /\ UNCHANGED not_registry

\* return _x
GetReturn(t) ==
    /\ callers[t].pc = "return"
    /\ handed' = handed \cup {[fn |-> callers[t].fn,
                                engine |-> Global(callers[t].fn)]}
    /\ callers' = [callers EXCEPT ![t] = Idle]
    /\ UNCHANGED <<_diet_rag, _exercise_rag, made>>
    /\ UNCHANGED not_registry

RegistryNext ==
    \E t \in Threads :
        \/ \E fn \in Getters : GetCall(t, fn)
        \/ GetTest(t)
        \/ GetConstruct(t)
        \/ GetStore(t)
        \/ GetReturn(t)

-----------------------------------------------------------------------------
(* The two domains: the engine get_exercise_rag constructs and the one     *)
(* get_diet_rag constructs, each on its persist directory of one file      *)
(* system, called one call at a time.  DietRAG is taken to be the engine   *)
(* ExerciseRAG is, on a directory of its own.                              *)

Domains == {"diet", "exercise"}

\* DietRAG's default persist_directory
diet_persist_directory == "data/diet_vectors"

\* ExerciseRAG's default persist_directory taken to be DietRAG's
exercise_persist_directory_shared == diet_persist_directory

\* ExerciseRAG's default persist_directory
exercise_persist_directory == "data/exercise_vectors"

persist_directory(d) ==
    IF d = "exercise" THEN exercise_persist_directory
    ELSE diet_persist_directory

\* the files handed to add_document in this part of the model
Uploads == {f \in Entries : f.name[1] \in {"a", "d", "c"}}

\* the attributes of an engine, without the directory it persists to
Memory(e) ==
    [index |-> e.index, documents |-> e.documents,
     processed_files |-> e.processed_files,
     embedding_model |-> e.embedding_model, model_built |-> e.model_built]

\* the engine of domain d with the files of its persist directory
Mounted(d) ==
    [index |-> rag[d].index, documents |-> rag[d].documents,
     processed_files |-> rag[d].processed_files,
     embedding_model |-> rag[d].embedding_model,
     model_built |-> rag[d].model_built,
     disk |-> fs[persist_directory(d)]]

\* the engine of domain d has become e
Written(d, e) ==
    /\ rag' = [rag EXCEPT ![d] = Memory(e)]
    /\ fs' = [fs EXCEPT ![persist_directory(d)] = e.disk]

\* the vectors of both indexes
Stored(r) == ntotal(r["diet"].index) + ntotal(r["exercise"].index)

DomainsStart ==
    /\ rag = [d \in Domains |-> Memory(init(EmptyDir))]
    /\ fs = [p \in {persist_directory(d) : d \in Domains} |-> EmptyDir]
    /\ last = [domain |-> "", op |-> "init"]

\* a caller calls add_document on the engine of domain d
DomainAddDocument(d) ==
    /\ \E f \in Uploads :
          LET r == add_document(Mounted(d), f, "none") IN
          /\ Written(d, r.e)
          /\ Stored(rag') <= MaxDocs
    /\ last' = [domain |-> d, op |-> "add_document"]
    /\ UNCHANGED not_domains

\* a caller calls process_folder on the engine of domain d
DomainProcessFolder(d) ==
    /\ \E files \in Orders(get_unprocessed_files(
                               folder, rag[d].processed_files)) :
          LET r == process_folder(Mounted(d), files, "none") IN
          /\ Written(d, r.e)
          /\ Stored(rag') <= MaxDocs
    /\ last' = [domain |-> d, op |-> "process_folder"]
    /\ UNCHANGED not_domains

\* a caller calls clear on the engine of domain d
DomainClear(d) ==
    /\ Written(d, clear(Mounted(d)))
    /\ last' = [domain |-> d, op |-> "clear"]
    /\ UNCHANGED not_domains

DomainsNext ==
    \E d \in Domains :
        \/ DomainAddDocument(d)
        \/ DomainProcessFolder(d)
        \/ DomainClear(d)

-----------------------------------------------------------------------------
(* The state machine: one engine on one persist directory, called by one   *)
(* caller at a time; the process may stop and a new engine be constructed  *)
(* on what the directory then holds.                                       *)

Engine ==
    [index |-> index, documents |-> documents,
     processed_files |-> processed_files,
     embedding_model |-> embedding_model,
     model_built |-> model_built,
     disk |-> disk]

Becomes(e) ==
    /\ index' = e.index
    /\ documents' = e.documents
    /\ processed_files' = e.processed_files
    /\ embedding_model' = e.embedding_model
    /\ model_built' = e.model_built
    /\ disk' = e.disk

Aligned(e) == ntotal(e.index) = Len(e.documents)

\* what the documents folder may hold
Folders ==
    { {f \in Entries : f.name[1] \in {"z", "d", "c", "n", "s"}} }

Faulted(calls) == \E i \in 1..Len(calls) : calls[i].faulted

\* the names of a ledger
Ledger(l) == {l[i] : i \in 1..Len(l)}

-----------------------------------------------------------------------------
(* add_document statement by statement.  The engine has no lock: threads   *)
(* that hold the same engine run the statements of add_document and of     *)
(* _save_index interleaved; and the process may stop between any two        *)
(* statements of a call, after which a new engine is constructed on what   *)
(* the directory holds.                                                    *)

Writers == {"w1", "w2"}

\* the files the threads hand to add_document
Requests ==
    {f \in Entries : f.name[1] \in {"a", "z", "d"}}
    \cup { [name |-> <<"e", ".txt">>, is_file |-> TRUE, readable |-> TRUE,
            chunks |-> <<Tb>>, bad |-> 0] }

\* the files handed to add_document where the process may stop: one more,
\* whose only chunk has a newline in it
Resubmitted ==
    Requests
    \cup { [name |-> <<"m", ".md">>, is_file |-> TRUE, readable |-> TRUE,
            chunks |-> <<Tab>>, bad |-> 0] }

NoFile ==
    [name |-> <<>>, is_file |-> FALSE, readable |-> FALSE, chunks |-> <<>>,
     bad |-> 0]

\* a thread that is not in add_document
Resting == [pc |-> "idle", f |-> NoFile, i |-> 0, ok |-> FALSE]

\* the thread is inside add_document
Busy(w) == w.pc \notin {"idle", "done"}

\* the chunks the thread's call may still append
Remaining(w) == IF Busy(w) THEN Len(w.f.chunks) - (w.i - 1) ELSE 0

\* every text sits at the position of its vector
Paired(e) ==
    /\ Len(e.documents) = ntotal(e.index)
    /\ \A j \in 1..Len(e.documents) : e.documents[j] = e.index.vecs[j].of

\* documents.txt has as many lines as the index file has vectors, a file
\* that does not exist counting as none
FilesAligned(d) ==
    Len(IF d.docs.exists THEN StrippedLines(d.docs.data) ELSE <<>>)
        = Len(IF d.index.exists THEN d.index.data ELSE <<>>)

\* self.index.add(embedding) with the text appended where the vector
\* belongs
index_add_to_documents(e, chunk) ==
    [e EXCEPT !.documents = Append(@, chunk)]

\* self.index.add(embedding)
index_add(e, chunk) == [e EXCEPT !.index.vecs = Append(@, Vector(chunk))]

\* self.documents.append(chunk.page_content)
documents_append(e, chunk) == [e EXCEPT !.documents = Append(@, chunk)]

\* faiss.write_index writing documents.txt along with the index file
write_index_with_documents(e) ==
    [e EXCEPT !.disk.index = File(e.index.vecs),
              !.disk.docs = File(join(e.documents))]

\* faiss.write_index(self.index, str(self.index_path))
write_index(e) == [e EXCEPT !.disk.index = File(e.index.vecs)]

\* open(self.docs_path, 'w'): the file exists and is empty
open_docs(e) == [e EXCEPT !.disk.docs = File(<<>>)]

\* f.write('\n'.join(self.documents)), and the file is closed
write_docs(e) == [e EXCEPT !.disk.docs = File(join(e.documents))]

WritersStart ==
    /\ writers = [t \in Writers |-> Resting]
    /\ track = [raced |-> FALSE, disk_aligned |-> TRUE]

\* thread t goes to statement pc
Goes(t, pc) == writers' = [writers EXCEPT ![t].pc = pc]

\* the call of thread t returns ok
Returns(t, ok) == writers' = [writers EXCEPT ![t].pc = "done", ![t].ok = ok]

\* thread t calls add_document(path of f); what a call that had already
\* returned gave is forgotten
WBegin(t, f) ==
    /\ ~Busy(writers[t])
    /\ LET held == IF ntotal(index) > Len(documents)
                   THEN ntotal(index) ELSE Len(documents)
           others == CHOOSE o \in Writers : o # t
       IN held + Remaining(writers[others]) + Len(f.chunks) <= MaxDocs
    /\ writers' = [u \in Writers |->
                     IF u = t
                     THEN [pc |-> "load", f |-> f, i |-> 1, ok |-> FALSE]
                     ELSE IF Busy(writers[u]) THEN writers[u] ELSE Resting]
    /\ track' = [track EXCEPT !.disk_aligned = FilesAligned(disk)]
    /\ UNCHANGED <<index, documents, processed_files, embedding_model,
                   model_built, disk>>
    /\ UNCHANGED not_writers

\* chunks = self.processor.process_document(file_path)
WLoad(t) ==
    /\ writers[t].pc = "load"
    /\ IF process_document(writers[t].f).ok
       THEN Goes(t, "test_index")
       ELSE Returns(t, FALSE)
    /\ UNCHANGED <<index, documents, processed_files, embedding_model,
                   model_built, disk, track>>
    /\ UNCHANGED not_writers

\* if self.index is None:
WTestIndex(t) ==
    /\ writers[t].pc = "test_index"
    /\ Goes(t, IF index.none THEN "new_index" ELSE "encode")
    /\ UNCHANGED <<index, documents, processed_files, embedding_model,
                   model_built, disk, track>>
    /\ UNCHANGED not_writers

\* self.index = faiss.IndexFlatL2(self.dimension)
WNewIndex(t) ==
    /\ writers[t].pc = "new_index"
    /\ index' = IndexFlatL2
    /\ track' = [track EXCEPT !.raced = @ \/ ntotal(index) > 0]
    /\ Goes(t, "encode")
    /\ UNCHANGED <<documents, processed_files, embedding_model, model_built,
                   disk>>
    /\ UNCHANGED not_writers

\* for chunk in chunks: embedding = self._get_embedding_model().encode(...)
WEncode(t) ==
    /\ writers[t].pc = "encode"
    /\ IF writers[t].i > Len(writers[t].f.chunks)
       THEN /\ Goes(t, "ledger_test")
            /\ UNCHANGED <<embedding_model, model_built>>
       ELSE LET m == get_embedding_model(Engine, "none") IN
            /\ embedding_model' = m.e.embedding_model
            /\ model_built' = m.e.model_built
            /\ IF writers[t].i = writers[t].f.bad
               THEN Returns(t, FALSE)
               ELSE Goes(t, "index_add")
    /\ UNCHANGED <<index, documents, processed_files, disk, track>>
    /\ UNCHANGED not_writers

\* self.index.add(embedding)
WIndexAdd(t) ==
    /\ writers[t].pc = "index_add"
    /\ Becomes(index_add(Engine, writers[t].f.chunks[writers[t].i]))
    /\ Goes(t, "append")
    /\ UNCHANGED track
    /\ UNCHANGED not_writers

\* self.documents.append(chunk.page_content)
WAppend(t) ==
    /\ writers[t].pc = "append"
    /\ Becomes(documents_append(Engine, writers[t].f.chunks[writers[t].i]))
    /\ writers' = [writers EXCEPT ![t].pc = "encode", ![t].i = @ + 1]
    /\ UNCHANGED track
    /\ UNCHANGED not_writers

\* if file_name not in self.processed_files:
WLedgerTest(t) ==
    /\ writers[t].pc = "ledger_test"
    /\ Goes(t, IF Name(writers[t].f) \in Ledger(processed_files)
               THEN "save_index" ELSE "ledger_append")
    /\ UNCHANGED <<index, documents, processed_files, embedding_model,
                   model_built, disk, track>>
    /\ UNCHANGED not_writers

\* self.processed_files.append(file_name)
WLedgerAppend(t) ==
    /\ writers[t].pc = "ledger_append"
    /\ processed_files' = Append(processed_files, Name(writers[t].f))
    /\ Goes(t, "save_ledger")
    /\ UNCHANGED <<index, documents, embedding_model, model_built, disk,
                   track>>
    /\ UNCHANGED not_writers

\* self._save_processed_files()
WSaveLedger(t) ==
    /\ writers[t].pc = "save_ledger"
    /\ Becomes(save_processed_files(Engine, "none").e)
    /\ Goes(t, "save_index")
    /\ UNCHANGED track
    /\ UNCHANGED not_writers

\* self._save_index(): if self.index is not None: faiss.write_index(...)
WSaveIndex(t) ==
    /\ writers[t].pc = "save_index"
    /\ IF index.none
       THEN /\ Returns(t, TRUE)
            /\ UNCHANGED <<index, documents, processed_files,
                           embedding_model, model_built, disk>>
       ELSE /\ Becomes(write_index(Engine))
            /\ Goes(t, "open_docs")
    /\ UNCHANGED track
    /\ UNCHANGED not_writers

\* with open(self.docs_path, 'w', encoding='utf-8') as f:
WOpenDocs(t) ==
    /\ writers[t].pc = "open_docs"
    /\ Becomes(open_docs(Engine))
    /\ Goes(t, "write_docs")
    /\ UNCHANGED track
    /\ UNCHANGED not_writers

\* f.write('\n'.join(self.documents)); return True
WWriteDocs(t) ==
    /\ writers[t].pc = "write_docs"
    /\ Becomes(write_docs(Engine))
    /\ Returns(t, TRUE)
    /\ UNCHANGED track
    /\ UNCHANGED not_writers

\* the process stops where it is; a new one constructs the engine on the
\* directory
Crash ==
    /\ \E t \in Writers : Busy(writers[t])
    /\ Becomes(init(disk))
    /\ writers' = [t \in Writers |-> Resting]
    /\ track' = [raced |-> FALSE, disk_aligned |-> FilesAligned(disk)]
    /\ UNCHANGED not_writers

WritersNext ==
    \E t \in Writers :
          \/ \E f \in Requests : WBegin(t, f)
          \/ WLoad(t)
          \/ WTestIndex(t)
          \/ WNewIndex(t)
          \/ WEncode(t)
          \/ WIndexAdd(t)
          \/ WAppend(t)
          \/ WLedgerTest(t)
          \/ WLedgerAppend(t)
          \/ WSaveLedger(t)
          \/ WSaveIndex(t)
          \/ WOpenDocs(t)
          \/ WWriteDocs(t)

\* one thread in add_document, call after call, and the process stopping
CrashNext ==
    \/ \E f \in Resubmitted : WBegin("w1", f)
    \/ WLoad("w1")
    \/ WTestIndex("w1")
    \/ WNewIndex("w1")
    \/ WEncode("w1")
    \/ WIndexAdd("w1")
    \/ WAppend("w1")
    \/ WLedgerTest("w1")
    \/ WLedgerAppend("w1")
    \/ WSaveLedger("w1")
    \/ WSaveIndex("w1")
    \/ WOpenDocs("w1")
    \/ WWriteDocs("w1")
    \/ Crash

Init ==
    /\ folder \in Folders
    /\ index = init(EmptyDir).index
    /\ documents = init(EmptyDir).documents
    /\ processed_files = init(EmptyDir).processed_files
    /\ embedding_model = init(EmptyDir).embedding_model
    /\ model_built = init(EmptyDir).model_built
    /\ disk = init(EmptyDir).disk
    /\ ret = [op |-> "init"]
    /\ faults = 0
    /\ only_adds = TRUE
    /\ born_aligned = TRUE
    /\ RegistryStart
    /\ DomainsStart
    /\ WritersStart

\* a caller calls add_document(path of f); `fault` is what goes wrong
\* outside the file during the call.  known: the name was in the ledger
\* when the call began.
AddDocumentCall(f, fault) ==
    /\ fault = "none" \/ faults < MaxFaults
    /\ LET r == add_document(Engine, f, fault) IN
       /\ ntotal(r.e.index) <= MaxDocs
       /\ Becomes(r.e)
       /\ ret' = [op |-> "add_document", ok |-> r.ok, raised |-> r.raised,
                  stage |-> r.stage, at |-> r.at,
                  known |-> Name(f) \in Ledger(processed_files)]
       /\ faults' = IF r.faulted THEN faults + 1 ELSE faults
       /\ only_adds' = (only_adds /\ r.ok)
    /\ UNCHANGED <<folder, born_aligned>>
    /\ UNCHANGED not_engine

AddDocument == \E f \in Entries, fault \in Faults : AddDocumentCall(f, fault)

\* a caller calls process_folder(folder)
ProcessFolder ==
    LET todo == get_unprocessed_files(folder, processed_files) IN
    /\ \E files \in Orders(todo), fault \in Faults :
          /\ fault = "none" \/ faults < MaxFaults
          /\ LET r == process_folder(Engine, files, fault) IN
             /\ ntotal(r.e.index) <= MaxDocs
             /\ Becomes(r.e)
             /\ ret' = [op |-> "process_folder",
                        report |-> r.results,
                        calls |-> r.calls,
                        raised |-> r.raised,
                        ledger_before |-> processed_files,
                        count_before |-> get_document_count(Engine),
                        again |-> ret.op = "process_folder"
                                  /\ ~Faulted(ret.calls)]
             /\ faults' = IF Faulted(r.calls) THEN faults + 1 ELSE faults
             /\ only_adds' = (only_adds /\ r.results.failed = 0)
    /\ UNCHANGED <<folder, born_aligned>>
    /\ UNCHANGED not_engine

\* a caller calls search(query, k), k being 1 or the most the index can
\* hold; the model can fail to load only while it is not loaded
Search ==
    \E query \in Queries, k \in {1, MaxDocs}, fault \in {"none", "model_init"} :
      \E raw \in IndexSearch(index, encode(query), k) :
        LET r == search(Engine, query, k, fault, raw) IN
        /\ fault = "none" \/ embedding_model = "None"
        /\ Becomes(r.e)
        /\ ret' = [op |-> "search", k |-> k,
                   results |-> r.results, raised |-> r.raised,
                   failed |-> r.failed]
        /\ UNCHANGED <<folder, faults, only_adds, born_aligned>>
        /\ UNCHANGED not_engine

\* a caller calls get_document_count()
GetDocumentCount ==
    /\ ret' = [op |-> "get_document_count",
               count |-> get_document_count(Engine)]
    /\ UNCHANGED <<index, documents, processed_files, embedding_model,
                   model_built, disk, folder, faults,
                   only_adds, born_aligned>>
    /\ UNCHANGED not_engine

\* a caller asks the folder loader which files the ledger does not name
\* (the list is kept as the set of its names)
GetUnprocessedFiles ==
    /\ ret' = [op |-> "get_unprocessed_files",
               files |-> {Name(f) : f \in get_unprocessed_files(
                                             folder, processed_files)}]
    /\ UNCHANGED <<index, documents, processed_files, embedding_model,
                   model_built, disk, folder, faults,
                   only_adds, born_aligned>>
    /\ UNCHANGED not_engine

\* a caller lists the documents folder
ListFiles ==
    /\ ret' = [op |-> "list_files", listing |-> list_files(folder)]
    /\ UNCHANGED <<index, documents, processed_files, embedding_model,
                   model_built, disk, folder, faults,
                   only_adds, born_aligned>>
    /\ UNCHANGED not_engine

\* a caller calls clear()
Clear ==
    /\ Becomes(clear(Engine))
    /\ ret' = [op |-> "clear"]
    /\ only_adds' = FALSE
    /\ UNCHANGED <<folder, faults, born_aligned>>
    /\ UNCHANGED not_engine

\* the process ends (after a call, or where a failed write left the
\* directory) and a new one constructs the engine on the directory
Restart ==
    /\ Becomes(init(disk))
    /\ ret' = [op |-> "init"]
    /\ born_aligned' = Aligned(init(disk))
    /\ UNCHANGED <<folder, faults, only_adds>>
    /\ UNCHANGED not_engine

Next ==
    \/ AddDocument
    \/ ProcessFolder
    \/ Search
    \/ GetDocumentCount
    \/ GetUnprocessedFiles
    \/ ListFiles
    \/ Clear
    \/ Restart

Spec == Init /\ [][Next]_vars

\* the getters of rag_manager called from two threads
RegistrySpec == Init /\ [][RegistryNext]_vars

\* the diet engine and the exercise engine side by side
DomainsSpec == Init /\ [][DomainsNext]_vars

\* two threads in add_document on one engine
WritersSpec == Init /\ [][WritersNext]_vars

\* one thread in add_document and the process stopping between statements
CrashSpec == Init /\ [][CrashNext]_vars

-----------------------------------------------------------------------------
(* Helpers of the properties *)

Called(r) == {r.calls[i].name : i \in 1..Len(r.calls)}

RECURSIVE ChunkTotal(_)
ChunkTotal(S) ==
    IF S = {} THEN 0
    ELSE LET f == CHOOSE x \in S : TRUE IN
         Len(f.chunks) + ChunkTotal(S \ {f})

\* the call r was one in which constructing the embedding model raised
ModelFailedIn(r) ==
    \/ r.op = "add_document" /\ r.stage = "model"
    \/ r.op = "search" /\ r.failed

\* a/b >= c/d for fractions <<a, b>>, <<c, d>> with positive denominators
FracGeq(x, y) == x[1] * y[2] >= y[1] * x[2]

\* what search(query, k) may return on engine e when nothing goes wrong, each
\* result cut down to (content, distance)
Rankings(e, query, k) ==
    { LET rs == search(e, query, k, "none", raw).results IN
      [j \in 1..Len(rs) |-> <<rs[j].content, rs[j].distance>>] :
      raw \in IndexSearch(e.index, encode(query), k) }

-----------------------------------------------------------------------------
(* C1: on an engine whose constructor loaded as many documents as vectors, *)
(* after every completed add_document, process_folder or clear, successful *)
(* or not, the index holds as many vectors as there are documents.         *)
C1_Alignment ==
    (ret.op \in {"add_document", "process_folder", "clear"} /\ born_aligned)
        => ntotal(index) = Len(documents)

\* a failed add_document that had already appended a chunk
C1_Witness ==
    /\ ret.op = "add_document"
    /\ ~ret.ok
    /\ born_aligned
    /\ ntotal(index) >= 1
    /\ disk.index.exists = FALSE

(* C2: after successful add_document calls only, a fresh engine on the     *)
(* same persist directory has the same document count and the same ranked  *)
(* (content, distance) results for every query and k.                      *)
C2_RoundTrip ==
    only_adds =>
        /\ get_document_count(init(disk)) = get_document_count(Engine)
        /\ \A query \in Queries, k \in 1..MaxDocs :
              Rankings(init(disk), query, k) = Rankings(Engine, query, k)

(* C3: after clear() the document count is 0 and none of index file,       *)
(* documents.txt and processed_files.txt exists.                           *)
C3_ClearRemovesArtifacts ==
    ret.op = "clear" =>
        /\ get_document_count(Engine) = 0
        /\ ~disk.index.exists
        /\ ~disk.docs.exists
        /\ ~disk.processed.exists

(* C4: a process_folder that directly follows a process_folder on the same *)
(* folder, nothing but the files themselves failing in either, leaves the  *)
(* document count as the first call left it.                               *)
C4_Idempotent ==
    (ret.op = "process_folder" /\ ret.again /\ ~Faulted(ret.calls))
        => get_document_count(Engine) = ret.count_before

(* C5: search returns at most k results, in order of non-decreasing        *)
(* distance, that is of non-increasing relevance_score.                    *)
C5_SearchOrdered ==
    ret.op = "search" =>
        /\ Len(ret.results) <= ret.k
        /\ \A i, j \in 1..Len(ret.results) :
              i < j =>
                /\ ret.results[i].distance <= ret.results[j].distance
                /\ FracGeq(ret.results[i].relevance_score,
                           ret.results[j].relevance_score)

\* a search that ranked two hits at different distances
C5_Witness ==
    /\ ret.op = "search"
    /\ Len(ret.results) = 2
    /\ ret.results[1].distance < ret.results[2].distance

(* C6: when the index holds no vectors (no index yet, just cleared, or     *)
(* only a file without chunks ingested), search returns the empty list and *)
(* raises nothing.                                                         *)
C6_EmptySearch ==
    (ret.op = "search" /\ ntotal(index) = 0)
        => (ret.results = <<>> /\ ~ret.raised)

\* a search on an index that exists and is empty
C6_Witness ==
    /\ ret.op = "search"
    /\ ~index.none
    /\ ntotal(index) = 0
    /\ Len(processed_files) >= 1

(* C7: with n stored vectors, a search with k >= n that embeds its query   *)
(* returns exactly n results, one per stored vector.                       *)
C7_AllReturned ==
    (ret.op = "search" /\ ~ret.failed /\ ret.k >= ntotal(index))
        => /\ Len(ret.results) = ntotal(index)
           /\ {ret.results[i].idx : i \in 1..Len(ret.results)}
                  = 0..(ntotal(index) - 1)

(* C8: the content of every search result is the text of the chunk whose   *)
(* embedding is stored at the position of the hit.                         *)
C8_Pairing ==
    ret.op = "search" =>
        \A i \in 1..Len(ret.results) :
            ret.results[i].content = index.vecs[ret.results[i].idx + 1].of

(* C9: process_folder hands add_document no file whose name is in the      *)
(* ledger when the call starts: total_files counts the supported files of  *)
(* the folder whose name is not in the ledger, and files in the ledger get *)
(* no report entry and add no chunks.                                      *)
C9_SkipsLedger ==
    ret.op = "process_folder" =>
        LET L == Ledger(ret.ledger_before)
            fresh == {f \in folder :
                        /\ f.is_file
                        /\ lower(Suffix(f)) \in {".pdf", ".docx", ".txt", ".md"}
                        /\ Name(f) \notin L}
        IN /\ Called(ret) \cap L = {}
           /\ ret.report.total_files = Cardinality(fresh)
           /\ \A i \in 1..Len(ret.report.files) :
                 ret.report.files[i].name \notin L
           /\ get_document_count(Engine) - ret.count_before
                 <= ChunkTotal({f \in folder : Name(f) \in Called(ret)})

\* a folder with three supported files, one of them in the ledger
C9_Witness ==
    /\ ret.op = "process_folder"
    /\ ret.report.total_files = 2
    /\ Cardinality(get_files(folder)) = 3
    /\ \E f \in get_files(folder) : Name(f) \in Ledger(ret.ledger_before)

(* C10: process_folder calls add_document once for every unprocessed file  *)
(* whatever fails before, raises nothing, and reports processed + failed = *)
(* total_files = the number of files, with one status entry per call.      *)
C10_BatchIsolation ==
    ret.op = "process_folder" =>
        /\ ~ret.raised
        /\ ret.report.processed + ret.report.failed = ret.report.total_files
        /\ ret.report.total_files = Len(ret.calls)
        /\ Len(ret.report.files) = Len(ret.calls)
        /\ \A i \in 1..Len(ret.calls) :
              ret.report.files[i].name = ret.calls[i].name
        /\ \A i, j \in 1..Len(ret.calls) :
              i # j => ret.calls[i].name # ret.calls[j].name
        /\ Called(ret) =
              {Name(f) : f \in {g \in get_files(folder) :
                                  Name(g) \notin Ledger(ret.ledger_before)}}
        /\ Cardinality({i \in 1..Len(ret.report.files) :
                          ret.report.files[i].status = "success"})
              = ret.report.processed
        /\ Cardinality({i \in 1..Len(ret.report.files) :
                          ret.report.files[i].status = "failed"})
              = ret.report.failed

\* a batch in which a file succeeded after another had failed
C10_Witness ==
    /\ ret.op = "process_folder"
    /\ \E i, j \in 1..Len(ret.report.files) :
          /\ i < j
          /\ ret.report.files[i].status = "failed"
          /\ ret.report.files[j].status = "success"

(* C11: an add_document whose file does not load (no loader for the        *)
(* extension, not a file, or unreadable) returns False, raises nothing and *)
(* leaves index, documents, ledger and the three files of the persist      *)
(* directory as they were.                                                 *)
C11_LoadFailureFrame ==
    [][(ret'.op = "add_document" /\ ret'.stage = "load")
          => /\ ret'.ok = FALSE
             /\ ~ret'.raised
             /\ UNCHANGED <<index, documents, processed_files, disk>>]_vars

\* a load failure on an engine that holds vectors, a ledger and all files
C11_Witness ==
    /\ ret.op = "add_document"
    /\ ret.stage = "load"
    /\ ~ret.ok
    /\ ntotal(index) >= 1
    /\ Len(processed_files) >= 1
    /\ disk.index.exists /\ disk.docs.exists /\ disk.processed.exists

(* C12: an add_document in which embedding chunk i raises (the encoder on  *)
(* that chunk, or the construction of the model before it) returns False,  *)
(* raises nothing, has appended the chunks before i and none from i on to  *)
(* index and documents, and leaves the ledger and the three files of the   *)
(* persist directory as they were.                                         *)
C12_EmbedFailureFrame ==
    [][(ret'.op = "add_document" /\ ret'.stage \in {"encode", "model"})
          => /\ ret'.ok = FALSE
             /\ ~ret'.raised
             /\ \E f \in Entries :
                   /\ load_document_ok(f)
                   /\ ret'.at \in 1..Len(f.chunks)
                   /\ documents' = documents \o SubSeq(f.chunks, 1, ret'.at - 1)
                   /\ index'.vecs = index.vecs \o
                          [j \in 1..(ret'.at - 1) |-> Vector(f.chunks[j])]
             /\ processed_files' = processed_files
             /\ disk' = disk]_vars

\* the encoder raised on the second chunk of a file, on an engine that had
\* a document, a ledger entry and its files
C12_Witness ==
    /\ ret.op = "add_document"
    /\ ret.stage = "encode"
    /\ ret.at = 2
    /\ Len(documents) = 2
    /\ Len(processed_files) >= 1
    /\ disk.docs.exists

(* C13: when constructing the embedding model raises, add_document and     *)
(* search raise to their caller instead of returning False or the empty    *)
(* list, and the next call on the engine does not construct the model.     *)
C13_InitFailureFatal ==
    [][/\ ModelFailedIn(ret') => ret'.raised
       /\ (ModelFailedIn(ret) /\ ret'.op # "init")
              => (embedding_model' = "None" /\ model_built' = 0)]_vars

(* C14: the embedding model is not constructed by the constructor, by      *)
(* get_document_count, by clear, by the folder listings or by a search on  *)
(* an index without vectors; a call that embeds a text and in which the    *)
(* construction does not raise leaves it constructed; an engine constructs *)
(* it at most once, and once loaded it stays the engine's model.           *)
C14_LazyModel ==
    [][/\ ret'.op = "init" => (embedding_model' = "None" /\ model_built' = 0)
       /\ (\/ ret'.op \in {"get_document_count", "clear",
                            "get_unprocessed_files", "list_files"}
           \/ ret'.op = "search" /\ ntotal(index) = 0)
              => UNCHANGED <<embedding_model, model_built>>
       /\ (\/ ret'.op = "search" /\ ntotal(index) > 0 /\ ~ret'.failed
           \/ /\ ret'.op \in {"add_document", "process_folder"}
              /\ Len(documents') > Len(documents))
              => embedding_model' = "loaded"
       /\ (embedding_model = "loaded" /\ ret'.op # "init")
              => UNCHANGED <<embedding_model, model_built>>
       /\ model_built' <= 1
       /\ (embedding_model' = "loaded") = (model_built' = 1)]_vars

\* a search that embedded its query on an engine of two vectors whose model
\* has been constructed once
C14_Witness ==
    /\ ret.op = "search"
    /\ ~ret.failed
    /\ Len(ret.results) >= 1
    /\ ntotal(index) = 2
    /\ embedding_model = "loaded"
    /\ model_built = 1

(* C15: whatever get_diet_rag and get_exercise_rag calls the threads of a  *)
(* process make, at most one engine of each class is ever constructed and  *)
(* each getter returns the same instance at every call.                    *)
C15_OneEnginePerDomain ==
    \A fn \in Getters :
        /\ Cardinality({i \in made : i.class = ClassOf(fn)}) <= 1
        /\ Cardinality({h \in handed : h.fn = fn}) <= 1

(* C16: add_document on a file whose name the ledger already holds, the    *)
(* file loading into n chunks and nothing failing, returns True, raises    *)
(* get_document_count() by n and leaves the name in the ledger once.       *)
C16_ReAddDuplicates ==
    [][\A f \in Entries :
          (/\ ret'.op = "add_document"
           /\ ret'.known
           /\ load_document_ok(f)
           /\ f.bad = 0
           /\ Name(f) \in Ledger(processed_files)
           /\ AddDocumentCall(f, "none"))
              => /\ ret'.ok
                 /\ get_document_count(Engine)'
                       = get_document_count(Engine) + Len(f.chunks)
                 /\ Cardinality({i \in 1..Len(processed_files') :
                                   processed_files'[i] = Name(f)}) = 1]_vars

\* a file added a second time: its chunk is stored twice, its name once
C16_Witness ==
    /\ ret.op = "add_document"
    /\ ret.known
    /\ ret.ok
    /\ Len(documents) = 2
    /\ documents[1] = documents[2]
    /\ Len(processed_files) = 1

(* C17: an engine constructed on a persist directory in which the index    *)
(* file or documents.txt is missing is empty: its index holds no vectors,  *)
(* get_document_count() is 0 and every search returns the empty list.      *)
C17_StartupDegrades ==
    (ret.op = "init" /\ ~(disk.index.exists /\ disk.docs.exists))
        => /\ ntotal(index) = 0
           /\ get_document_count(Engine) = 0
           /\ \A query \in Queries, k \in 1..MaxDocs :
                 Rankings(Engine, query, k) = {<<>>}

(* C18: an add_document, process_folder or clear on the engine of one      *)
(* domain leaves what the engine of the other domain holds in memory       *)
(* (index, documents, ledger) and the files of the other domain's persist  *)
(* directory as they were.                                                 *)
C18_DomainIsolation ==
    [][\A d \in Domains :
          last'.domain = d =>
              \A o \in Domains \ {d} :
                  /\ rag'[o] = rag[o]
                  /\ fs'[persist_directory(o)] = fs[persist_directory(o)]]_vars

\* a clear of the exercise engine while the diet engine holds a document,
\* a ledger entry and its files
C18_Witness ==
    /\ last = [domain |-> "exercise", op |-> "clear"]
    /\ rag["exercise"].documents = <<>>
    /\ Len(rag["diet"].documents) >= 1
    /\ Len(rag["diet"].processed_files) >= 1
    /\ fs[persist_directory("diet")].index.exists
    /\ fs[persist_directory("diet")].docs.exists

(* C19: search, get_document_count, get_unprocessed_files and list_files,  *)
(* whether they succeed or fail, leave index, documents, ledger and the    *)
(* three files of the persist directory as they were.                      *)
C19_ReadsFrame ==
    [][ret'.op \in {"search", "get_document_count", "get_unprocessed_files",
                    "list_files"}
          => UNCHANGED <<index, documents, processed_files, disk>>]_vars

\* a search that answered on an engine whose index and ledger are ahead of
\* the files of its persist directory
C19_Witness ==
    /\ ret.op = "search"
    /\ Len(ret.results) >= 1
    /\ ntotal(index) >= 1
    /\ ~disk.index.exists
    /\ ~disk.docs.exists

(* C20: an add_document that returns True on a file of n chunks has        *)
(* appended the n chunk texts in order to documents and their n vectors to *)
(* the index, leaves an index file and a documents.txt written from the    *)
(* whole of index and documents, and the name of the file is in the ledger *)
(* and in processed_files.txt.                                             *)
C20_SuccessfulAdd ==
    [][\A f \in Entries :
          (/\ ret'.op = "add_document"
           /\ ret'.ok
           /\ AddDocumentCall(f, "none"))
              => /\ documents' = documents \o f.chunks
                 /\ index'.vecs = index.vecs \o
                        [j \in 1..Len(f.chunks) |-> Vector(f.chunks[j])]
                 /\ disk'.index = File(index'.vecs)
                 /\ disk'.docs = File(join(documents'))
                 /\ Name(f) \in Ledger(processed_files')
                 /\ disk'.processed.exists
                 /\ Name(f) \in Ledger(load_processed_files(disk'))]_vars

(* C22: after clear() the ledger is empty in memory and on disk, so that   *)
(* no supported file of the folder is held back from a following           *)
(* process_folder.                                                         *)
C22_ClearResetsLedger ==
    ret.op = "clear" =>
        /\ processed_files = <<>>
        /\ load_processed_files(disk) = <<>>
        /\ get_unprocessed_files(folder, processed_files) = get_files(folder)

(* C25: every add_document, process_folder and read leaves the documents   *)
(* it found as a prefix of the documents it leaves, and the vectors as a   *)
(* prefix of the vectors, so that get_document_count() does not decrease   *)
(* in a call other than clear.                                             *)
C25_AppendOnly ==
    [][ret'.op \notin {"clear", "init"}
          => /\ Len(documents') >= Len(documents)
             /\ SubSeq(documents', 1, Len(documents)) = documents
             /\ Len(index'.vecs) >= Len(index.vecs)
             /\ SubSeq(index'.vecs, 1, Len(index.vecs)) = index.vecs
             /\ get_document_count(Engine)' >= get_document_count(Engine)]_vars

\* a process_folder that found one document and left two, its report
\* counting a failed file
C25_Witness ==
    /\ ret.op = "process_folder"
    /\ ret.count_before = 1
    /\ Len(documents) = 2
    /\ ret.report.failed >= 1

(* C26: add_document raises nothing: whenever a statement of it raises     *)
(* (loading, embedding, the ledger write, the index or documents write)    *)
(* it returns False; and every status process_folder reports is "success"  *)
(* or "failed".                                                            *)
C26_NeverRaises ==
    /\ ret.op = "add_document" =>
          /\ ~ret.raised
          /\ ret.stage # "return" => ret.ok = FALSE
    /\ ret.op = "process_folder" =>
          \A i \in 1..Len(ret.report.files) :
              ret.report.files[i].status \in {"success", "failed"}

\* a process_folder in which a write of the index file raised
C26_Witness ==
    /\ ret.op = "process_folder"
    /\ Faulted(ret.calls)
    /\ ~disk.index.exists
    /\ disk.processed.exists
    /\ \E i \in 1..Len(ret.report.files) :
          ret.report.files[i].status = "failed"

(* C27: an add_document that returns False leaves get_document_count()     *)
(* and the number of vectors of the index as they were.                    *)
C27_FailedAddKeepsCount ==
    [][(ret'.op = "add_document" /\ ~ret'.ok)
          => /\ get_document_count(Engine)' = get_document_count(Engine)
             /\ ntotal(index') = ntotal(index)]_vars

(* C28: an add_document that returns False leaves the ledger and           *)
(* processed_files.txt as they were, so the file is still among the        *)
(* unprocessed files of its folder if it was before.                       *)
C28_FailedAddKeepsLedger ==
    [][(ret'.op = "add_document" /\ ~ret'.ok)
          => /\ processed_files' = processed_files
             /\ disk'.processed = disk.processed
             /\ get_unprocessed_files(folder, processed_files')
                   = get_unprocessed_files(folder, processed_files)]_vars

\* the texts and the vectors of every chunk of f are among those of e
Holds(e, f) ==
    \A j \in 1..Len(f.chunks) :
        /\ \E q \in 1..Len(e.documents) : e.documents[q] = f.chunks[j]
        /\ \E q \in 1..ntotal(e.index) : e.index.vecs[q].of = f.chunks[j]

(* C23: with two threads in add_document on one engine and no index        *)
(* replaced, the index holds exactly as many vectors more than there are   *)
(* documents as there are threads between index.add and documents.append;  *)
(* whatever reads or saves the engine then finds them unequal.             *)
C23_MisalignedBetweenSteps ==
    ~track.raced =>
        ntotal(index) - Len(documents)
            = Cardinality({t \in Writers : writers[t].pc = "append"})

\* one thread is between index.add and documents.append while the other
\* has returned True, its _save_index having written an index file of more
\* vectors than documents.txt has lines
C23_Witness ==
    /\ writers["w1"].pc = "append"
    /\ writers["w2"].pc = "done"
    /\ writers["w2"].ok
    /\ ntotal(index) # Len(documents)
    /\ disk.index.exists
    /\ disk.docs.exists
    /\ Len(disk.index.data) > Len(StrippedLines(disk.docs.data))

(* C24: whenever the process is between the write of the index file and    *)
(* the completed write of documents.txt, the directory loads into an       *)
(* engine whose vector count differs from its document count.              *)
C24_CrashBetweenWrites ==
    writers["w1"].pc \in {"open_docs", "write_docs"}
        => ~Aligned(init(disk))

(* C24 as amended: between the two writes the index file holds the whole   *)
(* index, and if the call appended at least one chunk and began on a       *)
(* directory whose documents.txt had as many lines as its index file had   *)
(* vectors, the directory loads into an engine whose vector count differs  *)
(* from its document count.                                                *)
C24_CrashBetweenWritesOfChunks ==
    writers["w1"].pc \in {"open_docs", "write_docs"}
        => /\ disk.index = File(index.vecs)
           /\ (track.disk_aligned /\ Len(writers["w1"].f.chunks) >= 1)
                 => ntotal(init(disk).index) > Len(init(disk).documents)

\* the index file of two vectors is written and documents.txt still holds
\* the one line of the save before
C24_Witness ==
    /\ writers["w1"].pc = "open_docs"
    /\ track.disk_aligned
    /\ Len(writers["w1"].f.chunks) = 1
    /\ disk.docs.exists
    /\ ntotal(init(disk).index) = 2
    /\ Len(init(disk).documents) = 1

(* C29: wherever the process stops during add_document, every file whose   *)
(* name is in processed_files.txt has the texts and the vectors of its     *)
(* chunks in the engine a new process loads from the directory.            *)
C29_LedgerCrashConsistent ==
    \A f \in Resubmitted :
        Name(f) \in Ledger(load_processed_files(disk)) => Holds(init(disk), f)

(* C30: when two overlapping add_document calls of different files have    *)
(* both returned True, every text is at the position of its vector, and    *)
(* the ledger names each of the two files once.                            *)
C30_PairingUnderWriters ==
    (/\ \A t \in Writers : writers[t].pc = "done" /\ writers[t].ok
     /\ Name(writers["w1"].f) # Name(writers["w2"].f))
        => /\ Paired(Engine)
           /\ \A t \in Writers :
                 Cardinality({j \in 1..Len(processed_files) :
                                processed_files[j] = Name(writers[t].f)}) = 1

====
